---- MODULE Spec2Model ----
(***************************************************************************)
(* Voice registry of pianoSynth (src/hooks/useSynth.ts): the two maps      *)
(* activeOscillators / sustainedOscillators, the oscillator + gain node of  *)
(* every voice, and the setTimeout callbacks that disconnect a released     *)
(* voice.  Time is counted in milliseconds and advances in steps of        *)
(* Quantum.  On top of it, the event handlers of the keyboard component     *)
(* (src/components/VirtualPiano.tsx) that drive the registry.               *)
(***************************************************************************)
EXTENDS Integers, FiniteSets, Sequences, TLC

\* ---- bounds of the model ------------------------------------------------
NumNotes == 2          \* how many distinct midi notes the callers use
MaxVoices == 2         \* how many oscillators may be created in one run
Quantum == 100         \* milliseconds that pass in one Tick

\* ---- constants of the program (milliseconds) ------------------------------
releaseTime == 150         \* stopNote: const releaseTime = 0.15
globalReleaseTime == 200   \* releaseGlobalSustain: const releaseTime = 0.2
stopMargin == 50           \* osc.stop(ctx.currentTime + releaseTime + 0.05)
timerMargin == 100         \* setTimeout(..., (releaseTime + 0.1) * 1000)
FirstNote == 60            \* baseMidi, the note the keyboard is centred on
GainScale == 10            \* setMasterVolume: volume / 10 (gains are kept in tenths)
DefaultVolume == 7         \* useState(7): the volume slider's initial value
OctaveStep == 12           \* setOctaveOffset(prev => ... prev - 12 / prev + 12)
MaxOctaveOffset == 24      \* Math.max(-24, ...) / Math.min(24, ...)
LowestNote == 24           \* handleKeyDown: midi >= 24
HighestNote == 108         \* handleKeyDown: midi <= 108
ConcertA == 69             \* playNote: (midiNote - 69) / 12
ConcertHz == 440           \* playNote: 440 * Math.pow(...)
SemitonesPerOctave == 12   \* playNote: (midiNote - 69) / 12

Notes == FirstNote .. (FirstNote + NumNotes - 1)

\* The physical note keys of the model, with their KEY_TO_OFFSET entries,
\* and the control keys.
KEY_TO_OFFSET == [KeyR |-> 9]
NoteCodes == DOMAIN KEY_TO_OFFSET
ControlCodes == {"ArrowLeft", "ArrowRight", "CapsLock", "Space"}
OctaveOffsets ==
    {o \in (0 - MaxOctaveOffset) .. MaxOctaveOffset : o % OctaveStep = 0}

\* The smallest and the largest offset KEY_TO_OFFSET gives a note key
\* ('KeyZ': -9, 'Minus': 22).
LowestOffset == 0 - 9
HighestOffset == 22

\* Variant of PointerNotes in which a key above the range is rendered.
PointerNotes_beyond == {FirstNote, HighestNote + 1}

\* The on-screen keys the pointer is used on: middle C and the keys that the
\* physical note keys play at octave offset 0.
PointerNotes == {FirstNote} \cup {FirstNote + KEY_TO_OFFSET[c] : c \in NoteCodes}

\* Every midi note a caller of the model can name: the keys of the two maps.
Midi ==
    Notes \cup PointerNotes
          \cup {FirstNote + KEY_TO_OFFSET[c] + o : c \in NoteCodes, o \in OctaveOffsets}
VoiceIds == 1 .. MaxVoices
NoVoice == 0
NoGain == 0 - 1            \* masterGainNode.current is null
Horizon == globalReleaseTime + timerMargin   \* the latest scheduled event

Min(a, b) == IF a < b THEN a ELSE b
Bump(c) == Min(c + 1, 2)   \* call counters saturate at 2 ("more than once")

VARIABLES
    backend,        \* audioContext.current and masterGainNode.current are set
    faulty,         \* the audio backend may throw from stop()/disconnect()
    active,         \* activeOscillators    : note -> voice id (0 = no entry)
    sustained,      \* sustainedOscillators : note -> voice id (0 = no entry)
    voices,         \* every oscillator/gain pair created so far, by id
    nVoices,        \* number of oscillators created so far
    timers,         \* pending setTimeout callbacks
    lastOp,         \* the call (or callback, or tick) that produced this state
    masterGain,     \* masterGainNode.gain, in tenths
    activeKeys,     \* VirtualPiano state: the highlighted keys
    isSustainActive,\* VirtualPiano state: the sustain flag
    octaveOffset,   \* VirtualPiano state: the transposition of the key map
    input           \* the keyboard and the pointer: what is down, and why

ui == <<activeKeys, isSustainActive, octaveOffset, input>>
vars == <<backend, faulty, active, sustained, voices, nVoices, timers, lastOp,
          masterGain, activeKeys, isSustainActive, octaveOffset, input>>

\* input.pressed[c]  KeyIsUp while the note key c is up; while it is down, the
\*                   note its key-down started (NoNote if it started none)
\* input.pointed     the on-screen keys the pointer went down on and has not
\*                   yet gone up on or left
\* input.flip        changes with every pointer-up or pointer-leave on a key
\*                   that is not in input.pointed
KeyIsUp == 0 - 1
NoNote == 0
NoInput ==
    [pressed |-> [c \in NoteCodes |-> KeyIsUp], pointed |-> {}, flip |-> FALSE]

\* ---- the oscillator frequency ----------------------------------------------
\* Math.pow(2, k / 12) for k = 0 .. 11, to four decimals: Root12[k + 1] / Root12[1]
Root12 ==
    <<10000, 10595, 11225, 11892, 12599, 13348,
      14142, 14983, 15874, 16818, 17818, 18877>>

\* x Hz in the unit the model keeps frequencies in
Hz(x) == x * Root12[1]

RECURSIVE TwoTo(_)
TwoTo(k) == IF k = 0 THEN 1 ELSE 2 * TwoTo(k - 1)

\* Math.pow(2, d / 12) times x, for any integer d: whole octaves are exact
\* powers of two, the remaining semitones come from Root12
Pow2Twelfths(x, d) ==
    LET q == d \div SemitonesPerOctave
        r == d % SemitonesPerOctave
    IN IF q >= 0 THEN x * Root12[r + 1] * TwoTo(q)
                 ELSE (x * Root12[r + 1]) \div TwoTo(0 - q)

\* Variant of frequency that takes middle C as the 440 Hz reference.
frequency_fromMiddleC(midiNote) == Pow2Twelfths(ConcertHz, midiNote - FirstNote)

\* "const frequency = 440 * Math.pow(2, (midiNote - 69) / 12)"
frequency(midiNote) == Pow2Twelfths(ConcertHz, midiNote - ConcertA)

\* An oscillator/gain pair (ActiveNoteData) and what has been done to it.
\*   note      midi note the oscillator was created for
\*   started   osc.start() was called
\*   stopCalls number of osc.stop() calls made on it
\*   stopOK    the last osc.stop() call returned normally
\*   stopAt    delay, from the last stop() call, at which emission ceases
\*   since     milliseconds elapsed since the last stop() call
\*   oscDisc   number of completed osc.disconnect() calls
\*   gainDisc  number of completed gainNode.disconnect() calls
\*   endedBy   operation that ended the voice
\*   rampEnd   delay, from the last stop() call, at which the release ramp ends
\*   freq      osc.frequency, in the unit of Root12 (Root12[1] units are 1 Hz)
ActiveNoteData(n) ==
    [note |-> n, started |-> TRUE, stopCalls |-> 0, stopOK |-> FALSE,
     stopAt |-> 0, since |-> 0, oscDisc |-> 0, gainDisc |-> 0,
     endedBy |-> "none", rampEnd |-> 0, freq |-> frequency(n)]

Uncreated ==
    [note |-> 0, started |-> FALSE, stopCalls |-> 0, stopOK |-> FALSE,
     stopAt |-> 0, since |-> 0, oscDisc |-> 0, gainDisc |-> 0,
     endedBy |-> "none", rampEnd |-> 0, freq |-> 0]

EmptyMap == [n \in Midi |-> NoVoice]
has(m, n) == m[n] # NoVoice
keys(m) == {n \in Midi : has(m, n)}
values(m) == {m[n] : n \in keys(m)}
Created == 1 .. nVoices

\* lastOp: the call that was made (op, n, sus), the branch of the code it took
\* (res), and for enforceSilence the sizes of the two maps when it was called
\* (na, ns) and how many voices threw during the sweep (nf); env is the
\* sequence of calls the operation made on the gain parameter of a voice.
Op(name, n, s, res) ==
    [op |-> name, n |-> n, sus |-> s, res |-> res, na |-> 0, ns |-> 0, nf |-> 0,
     env |-> <<>>]

OpEnv(name, n, s, res, env) == [Op(name, n, s, res) EXCEPT !.env = env]

\* ---- the calls each operation makes on gainNode.gain, in program order ------
\* playNote, new voice: no cancelScheduledValues on the fresh gain node
AttackEnvelope == <<"setValueAtTime", "linearRampToValueAtTime">>
\* playNote, note found in sustainedOscillators
RetriggerEnvelope == <<"cancelScheduledValues">>
\* stopNote, isGlobalSustainActive: the ramp follows the cancel directly
SustainDecayEnvelope == <<"cancelScheduledValues", "linearRampToValueAtTime">>
\* stopNote, normal release
ReleaseEnvelope ==
    <<"cancelScheduledValues", "setValueAtTime", "exponentialRampToValueAtTime">>
\* releaseGlobalSustain, for each sustained voice
GlobalReleaseEnvelope ==
    <<"cancelScheduledValues", "setValueAtTime", "exponentialRampToValueAtTime">>
\* enforceSilence, for each voice of the two maps
SilenceEnvelope == <<"cancelScheduledValues", "setValueAtTime">>
Ramps == {"linearRampToValueAtTime", "exponentialRampToValueAtTime"}

\* ---- what can be observed of a voice --------------------------------------
Stopped(v) ==
    /\ voices[v].stopCalls > 0
    /\ voices[v].stopOK
    /\ voices[v].since >= voices[v].stopAt
Disposed(v) == voices[v].oscDisc > 0 /\ voices[v].gainDisc > 0
Sounding(v) ==
    /\ voices[v].started
    /\ ~Stopped(v)
    /\ voices[v].oscDisc = 0
    /\ voices[v].gainDisc = 0
HasTimer(v) == \E t \in timers : t.v = v

TypeOK ==
    /\ backend \in BOOLEAN
    /\ faulty \in BOOLEAN
    /\ active \in [Midi -> 0 .. MaxVoices]
    /\ sustained \in [Midi -> 0 .. MaxVoices]
    /\ masterGain \in {NoGain} \cup (0 .. GainScale)
    /\ activeKeys \subseteq Midi
    /\ isSustainActive \in BOOLEAN
    /\ octaveOffset \in OctaveOffsets
    /\ input.pressed \in [NoteCodes -> {KeyIsUp, NoNote} \cup Midi]
    /\ input.pointed \subseteq PointerNotes
    /\ input.flip \in BOOLEAN
    /\ nVoices \in 0 .. MaxVoices
    /\ DOMAIN voices = VoiceIds
    /\ \A t \in timers : t.v \in Created

\* ---- construction ---------------------------------------------------------
InitRegistry ==
    /\ backend \in BOOLEAN
    /\ active = EmptyMap
    /\ sustained = EmptyMap
    /\ voices = [v \in VoiceIds |-> Uncreated]
    /\ nVoices = 0
    /\ timers = {}
    /\ lastOp = Op("init", 0, FALSE, "done")
    /\ masterGain = IF backend THEN GainScale ELSE NoGain
    /\ activeKeys = {}
    /\ isSustainActive = FALSE
    /\ octaveOffset = 0
    /\ input = NoInput

Init == InitRegistry /\ faulty = FALSE
InitFault == InitRegistry /\ faulty = TRUE


reg == <<active, sustained, voices, nVoices, timers>>

\* ---- playNote (noteOn) ----------------------------------------------------
\* Variant of Retrigger that forgets sustainedOscillators.current.delete(midiNote).
Retrigger_keepsSustained(n) ==
    /\ active' = [active EXCEPT ![n] = sustained[n]]
    /\ UNCHANGED <<sustained, voices, nVoices, timers>>

\* "if (sustainedOscillators.current.has(midiNote))": the sustaining voice is
\* moved back to the active map, oscillator and gain node unchanged.
Retrigger(n) ==
    /\ sustained' = [sustained EXCEPT ![n] = NoVoice]
    /\ active' = [active EXCEPT ![n] = sustained[n]]
    /\ UNCHANGED <<voices, nVoices, timers>>

\* Variant of AlreadyPlaying without the "already playing" test.
AlreadyPlaying_unchecked(n) == FALSE

\* "if (activeOscillators.current.has(midiNote)) return; // Already playing"
AlreadyPlaying(n) == has(active, n)

\* createOscillator / createGain / connect / osc.start() / active.set
CreateVoice(n) ==
    /\ nVoices' = nVoices + 1
    /\ voices' = [voices EXCEPT ![nVoices + 1] = ActiveNoteData(n)]
    /\ active' = [active EXCEPT ![n] = nVoices + 1]
    /\ UNCHANGED <<sustained, timers>>

playNote(n) ==
    /\ (backend /\ ~has(sustained, n) /\ ~AlreadyPlaying(n)) => nVoices < MaxVoices
    /\ UNCHANGED <<backend, faulty>>
    /\ IF ~backend
       THEN lastOp' = Op("playNote", n, FALSE, "dropped") /\ UNCHANGED reg
       ELSE IF has(sustained, n)
       THEN /\ lastOp' = OpEnv("playNote", n, FALSE, "retriggered", RetriggerEnvelope)
            /\ Retrigger(n)
       ELSE IF AlreadyPlaying(n)
       THEN lastOp' = Op("playNote", n, FALSE, "noop") /\ UNCHANGED reg
       ELSE /\ lastOp' = OpEnv("playNote", n, FALSE, "created", AttackEnvelope)
            /\ CreateVoice(n)

\* ---- stopNote (noteOff) ---------------------------------------------------
\* osc.stop(ctx.currentTime + rel + 0.05) on the voice record r
ScheduleStop(r, rel, by) ==
    [r EXCEPT !.stopCalls = Bump(@), !.stopOK = TRUE,
              !.stopAt = rel + stopMargin, !.since = 0, !.endedBy = by,
              !.rampEnd = rel]

\* Variant of DisposalTimer whose delay is the ramp time alone.
DisposalTimer_atRampEnd(v, rel) == [v |-> v, delay |-> rel]

\* setTimeout(() => { osc.disconnect(); gainNode.disconnect(); }, (rel + 0.1) * 1000)
DisposalTimer(v, rel) == [v |-> v, delay |-> rel + timerMargin]

\* Variant of ActiveAfterStop that forgets activeOscillators.current.delete.
ActiveAfterStop_kept(n) == active

\* "activeOscillators.current.delete(midiNote)"
ActiveAfterStop(n) == [active EXCEPT ![n] = NoVoice]

\* Variant of SustainNote that also schedules the stop and the disconnect of
\* the release branch.
SustainNote_schedulesStop(n) ==
    /\ sustained' = [sustained EXCEPT ![n] = active[n]]
    /\ voices' = [voices EXCEPT ![active[n]] = ScheduleStop(@, releaseTime, "stopNote")]
    /\ timers' = timers \cup {DisposalTimer(active[n], releaseTime)}
    /\ UNCHANGED nVoices

\* sustain branch: the voice is moved to sustainedOscillators
SustainNote(n) ==
    /\ sustained' = [sustained EXCEPT ![n] = active[n]]
    /\ UNCHANGED <<voices, nVoices, timers>>

\* Variant of ReleaseNote that forgets the setTimeout.
ReleaseNote_noTimer(n) ==
    /\ voices' = [voices EXCEPT ![active[n]] = ScheduleStop(@, releaseTime, "stopNote")]
    /\ UNCHANGED <<sustained, nVoices, timers>>

\* release branch: ramp, scheduled stop, deferred disconnect
ReleaseNote(n) ==
    /\ voices' = [voices EXCEPT ![active[n]] = ScheduleStop(@, releaseTime, "stopNote")]
    /\ timers' = timers \cup {DisposalTimer(active[n], releaseTime)}
    /\ UNCHANGED <<sustained, nVoices>>

\* Variant of NoNoteData that takes every note for a held one.
NoNoteData_unchecked(n) == FALSE

\* "const noteData = activeOscillators.current.get(midiNote); if (... !noteData) return"
NoNoteData(n) == ~has(active, n)

stopNote(n, isGlobalSustainActive) ==
    /\ UNCHANGED <<backend, faulty>>
    /\ IF ~backend \/ NoNoteData(n)
       THEN /\ lastOp' = Op("stopNote", n, isGlobalSustainActive,
                            IF backend THEN "noop" ELSE "dropped")
            /\ UNCHANGED reg
       ELSE /\ active' = ActiveAfterStop(n)
            /\ IF isGlobalSustainActive
               THEN /\ lastOp' = OpEnv("stopNote", n, TRUE, "sustained",
                                       SustainDecayEnvelope)
                    /\ SustainNote(n)
               ELSE /\ lastOp' = OpEnv("stopNote", n, FALSE, "released",
                                       ReleaseEnvelope)
                    /\ ReleaseNote(n)

\* ---- releaseGlobalSustain -------------------------------------------------
\* Variant of SustainedAfterRelease that forgets the clear().
SustainedAfterRelease_kept == sustained

\* "sustainedOscillators.current.clear()"
SustainedAfterRelease == EmptyMap

releaseGlobalSustain ==
    /\ UNCHANGED <<backend, faulty>>
    /\ lastOp' = OpEnv("releaseGlobalSustain", 0, FALSE,
                       IF backend THEN "done" ELSE "dropped",
                       IF backend /\ keys(sustained) # {}
                       THEN GlobalReleaseEnvelope ELSE <<>>)
    /\ IF ~backend THEN UNCHANGED reg
       ELSE /\ voices' = [v \in VoiceIds |->
                            IF v \in values(sustained)
                            THEN ScheduleStop(voices[v], globalReleaseTime, "releaseGlobalSustain")
                            ELSE voices[v]]
            /\ timers' = timers \cup
                   {DisposalTimer(v, globalReleaseTime) : v \in values(sustained)}
            /\ sustained' = SustainedAfterRelease
            /\ UNCHANGED <<active, nVoices>>

\* ---- the deferred disposal callback ---------------------------------------
\* osc.disconnect(); gainNode.disconnect();
Disconnect(r) == [r EXCEPT !.oscDisc = Bump(@), !.gainDisc = Bump(@)]

\* Variant of TimersAfterFire for a repeating timer (setInterval).
TimersAfterFire_repeating(t) == timers

\* a setTimeout callback runs once and is then gone
TimersAfterFire(t) == timers \ {t}

TimerFire(t) ==
    /\ voices[t.v].since >= t.delay
    /\ voices' = [voices EXCEPT ![t.v] = Disconnect(@)]
    /\ timers' = TimersAfterFire(t)
    /\ lastOp' = Op("timer", voices[t.v].note, FALSE, "done")
    /\ UNCHANGED <<backend, faulty, active, sustained, nVoices, masterGain, ui>>

\* any pending callback whose delay has elapsed may run next
disposalCallback == \E t \in timers : TimerFire(t)

\* ---- the passage of time --------------------------------------------------
\* A voice's clock matters while its scheduled stop or its disposal callback
\* is still to come.
Due(v) ==
    /\ voices[v].stopCalls > 0
    /\ voices[v].since < Horizon
    /\ voices[v].since < voices[v].stopAt \/ HasTimer(v)

Tick ==
    /\ \E v \in Created : Due(v)
    /\ voices' = [v \in VoiceIds |->
                    IF Due(v)
                    THEN [voices[v] EXCEPT !.since = Min(@ + Quantum, Horizon)]
                    ELSE voices[v]]
    /\ lastOp' = Op("tick", 0, FALSE, "done")
    /\ UNCHANGED <<backend, faulty, active, sustained, nVoices, timers,
                   masterGain, ui>>

\* ---- enforceSilence (forceSilence) -----------------------------------------
\* What the backend does to one voice during the sweep: "none" - every call
\* returns; "stop" - oscillator.stop() throws; "disconnect" -
\* oscillator.disconnect() throws.
Faults == {"none", "stop", "disconnect"}

\* The body of one try block on the voice record r:
\*   oscillator.stop(); oscillator.disconnect(); gainNode.disconnect();
\* a throw leaves the rest of the block unexecuted.
SilenceVoice(r, fault) ==
    IF fault = "stop"
    THEN [r EXCEPT !.stopCalls = Bump(@), !.stopOK = FALSE,
                   !.endedBy = "enforceSilence"]
    ELSE IF fault = "disconnect"
    THEN [r EXCEPT !.stopCalls = Bump(@), !.stopOK = TRUE, !.stopAt = 0,
                   !.since = 0, !.endedBy = "enforceSilence"]
    ELSE [r EXCEPT !.stopCalls = Bump(@), !.stopOK = TRUE, !.stopAt = 0,
                   !.since = 0, !.oscDisc = Bump(@), !.gainDisc = Bump(@),
                   !.endedBy = "enforceSilence"]

\* Variant of Sweep without the try/catch: the first throw (in voice order)
\* ends the loop, the later voices are not touched.
Sweep_noCatch(vs, S, f) ==
    [v \in VoiceIds |->
        IF v \in S /\ \A w \in S : w < v => f[w] = "none"
        THEN SilenceVoice(vs[v], f[v])
        ELSE vs[v]]

\* map.forEach(... try { ... } catch (e) { console.warn(...) }): every voice
\* of the set S gets its own try block, so a throw ends that voice's block only.
Sweep(vs, S, f) ==
    [v \in VoiceIds |-> IF v \in S THEN SilenceVoice(vs[v], f[v]) ELSE vs[v]]

\* Variant of SustainedAfterSilence that forgets the second clear().
SustainedAfterSilence_kept(f) == sustained

\* "activeOscillators.current.clear()" / "sustainedOscillators.current.clear()"
ActiveAfterSilence(f) == EmptyMap
SustainedAfterSilence(f) == EmptyMap

\* the fault assignments the backend can produce for this call
FaultChoices ==
    {f \in [VoiceIds -> Faults] :
        \A v \in VoiceIds :
            f[v] # "none" => faulty /\ v \in values(active) \cup values(sustained)}

enforceSilence ==
    /\ UNCHANGED <<backend, faulty>>
    /\ IF ~backend
       THEN lastOp' = Op("enforceSilence", 0, FALSE, "dropped") /\ UNCHANGED reg
       ELSE \E f \in FaultChoices :
            /\ lastOp' = [Op("enforceSilence", 0, FALSE, "done") EXCEPT
                              !.na = Cardinality(keys(active)),
                              !.ns = Cardinality(keys(sustained)),
                              !.nf = Cardinality({v \in VoiceIds : f[v] # "none"}),
                              !.env = IF keys(active) \cup keys(sustained) # {}
                                      THEN SilenceEnvelope ELSE <<>>]
            /\ voices' = Sweep(Sweep(voices, values(active), f), values(sustained), f)
            /\ active' = ActiveAfterSilence(f)
            /\ sustained' = SustainedAfterSilence(f)
            /\ UNCHANGED <<nVoices, timers>>

\* ---- setMasterVolume ----------------------------------------------------------
Max(a, b) == IF a > b THEN a ELSE b

\* Variant of gainValue without the lower clamp.
gainValue_noFloor(volume) == Min(GainScale, volume)

\* "Math.min(1, Math.max(0, volume / 10))", in tenths
gainValue(volume) == Min(GainScale, Max(0, volume))

\* Variant of MasterGainAfterSet without the test of the two refs.
MasterGainAfterSet_unguarded(volume) == gainValue(volume)

\* "if (masterGainNode.current && audioContext.current) gain.setValueAtTime(...)"
MasterGainAfterSet(volume) == IF backend THEN gainValue(volume) ELSE masterGain

setMasterVolume(volume) ==
    /\ masterGain' = MasterGainAfterSet(volume)
    /\ lastOp' = Op("setMasterVolume", volume, FALSE,
                    IF backend THEN "done" ELSE "dropped")
    /\ UNCHANGED <<backend, faulty, reg>>

\* the volumes a caller passes: below the range, its ends, inside, above
Volumes == {0 - 5, 0, DefaultVolume, GainScale, 5 * GainScale}

\* ---- the registry driven through its interface ------------------------------
\* The calls of the interface useSynth returns, made by an arbitrary caller.
noteOn == \E n \in Notes : playNote(n) /\ UNCHANGED <<masterGain, ui>>
noteOff == \E n \in Notes, s \in BOOLEAN : stopNote(n, s) /\ UNCHANGED <<masterGain, ui>>
releaseSustain == releaseGlobalSustain /\ UNCHANGED <<masterGain, ui>>
forceSilence == enforceSilence /\ UNCHANGED <<masterGain, ui>>

Next ==
    \/ noteOn
    \/ noteOff
    \/ releaseSustain
    \/ forceSilence
    \/ disposalCallback
    \/ Tick

Spec == Init /\ [][Next]_vars
SpecFault == InitFault /\ [][Next]_vars

\* The audio clock advances and the event loop runs every callback whose
\* delay has elapsed.
SpecLive == Init /\ [][Next]_vars /\ WF_vars(Tick) /\ WF_vars(disposalCallback)

\* the calls of the interface, master volume included; the clock and the
\* disposal callbacks neither read nor write the master gain
masterVolume == \E volume \in Volumes : setMasterVolume(volume) /\ UNCHANGED ui

NextMaster ==
    \/ noteOn
    \/ noteOff
    \/ releaseSustain
    \/ forceSilence
    \/ masterVolume

SpecMaster == Init /\ [][NextMaster]_vars

\* ---- the keyboard component (VirtualPiano) ------------------------------------
\* a handler that calls nothing of the registry
NoCall ==
    /\ lastOp' = Op("none", 0, FALSE, "done")
    /\ UNCHANGED <<backend, faulty, reg>>

\* "const baseMidi = 60; ... return baseMidi + offset + currentOctaveOffset"
getMidiFromKey(code, currentOctaveOffset) ==
    FirstNote + KEY_TO_OFFSET[code] + currentOctaveOffset

\* "setOctaveOffset(prev => Math.max(-24, prev - 12))" and its counterpart
OctaveDown(prev) == Max(0 - MaxOctaveOffset, prev - OctaveStep)
OctaveUp(prev) == Min(MaxOctaveOffset, prev + OctaveStep)

\* handleKeyDown for a control key (e.repeat is false)
controlKeyDown(code) ==
    /\ code \in ControlCodes
    /\ UNCHANGED masterGain
    /\ IF code = "ArrowLeft"
       THEN /\ octaveOffset' = OctaveDown(octaveOffset)
            /\ UNCHANGED <<activeKeys, isSustainActive>>
            /\ NoCall
       ELSE IF code = "ArrowRight"
       THEN /\ octaveOffset' = OctaveUp(octaveOffset)
            /\ UNCHANGED <<activeKeys, isSustainActive>>
            /\ NoCall
       ELSE IF code = "CapsLock"
       THEN /\ isSustainActive' = TRUE
            /\ UNCHANGED <<activeKeys, octaveOffset>>
            /\ NoCall
       ELSE /\ enforceSilence
            /\ activeKeys' = {}
            /\ isSustainActive' = FALSE
            /\ UNCHANGED octaveOffset

\* "if (midi && midi >= 24 && midi <= 108) { if (!activeKeys.has(midi)) {"
StartsNote(midi) ==
    midi >= LowestNote /\ midi <= HighestNote /\ midi \notin activeKeys

\* handleKeyDown for a note key (e.repeat is false)
noteKeyDown(code) ==
    /\ code \in NoteCodes
    /\ UNCHANGED <<masterGain, isSustainActive, octaveOffset>>
    /\ LET midi == getMidiFromKey(code, octaveOffset)
       IN IF StartsNote(midi)
          THEN /\ activeKeys' = activeKeys \cup {midi}
               /\ playNote(midi)
          ELSE /\ UNCHANGED activeKeys
               /\ NoCall

keyDown(code) == controlKeyDown(code) \/ noteKeyDown(code)

handleKeyDown == \E code \in NoteCodes \cup ControlCodes :
                    keyDown(code) /\ UNCHANGED input

\* Variant of KeyUpSustain that sustains on every key-up.
KeyUpSustain_on == TRUE

\* "stopNote(midi, isSustainActive)": the flag handleKeyUp passes on
KeyUpSustain == isSustainActive

\* handleKeyUp for the key code
keyUp(code) ==
    /\ UNCHANGED <<masterGain, octaveOffset>>
    /\ IF code = "CapsLock"
       THEN /\ isSustainActive' = FALSE
            /\ releaseGlobalSustain
            /\ UNCHANGED activeKeys
       ELSE IF code \in NoteCodes /\ getMidiFromKey(code, octaveOffset) \in activeKeys
       THEN /\ activeKeys' = activeKeys \ {getMidiFromKey(code, octaveOffset)}
            /\ stopNote(getMidiFromKey(code, octaveOffset), KeyUpSustain)
            /\ UNCHANGED isSustainActive
       ELSE /\ UNCHANGED <<activeKeys, isSustainActive>>
            /\ NoCall

handleKeyUp == \E code \in NoteCodes \cup ControlCodes :
                  keyUp(code) /\ UNCHANGED input

\* handleMousePlay, called by handleDown (onPointerDown) of an on-screen key
mousePlay(midi) ==
    /\ activeKeys' = activeKeys \cup {midi}
    /\ playNote(midi)
    /\ UNCHANGED <<masterGain, isSustainActive, octaveOffset>>

handleMousePlay == \E midi \in PointerNotes : mousePlay(midi) /\ UNCHANGED input

\* "stopNote(midi, false)": the flag handleMouseStop passes on
MouseStopSustain == FALSE

\* handleMouseStop, called by handleUp (onPointerUp, onPointerLeave)
mouseStop(midi) ==
    /\ activeKeys' = activeKeys \ {midi}
    /\ stopNote(midi, MouseStopSustain)
    /\ UNCHANGED <<masterGain, isSustainActive, octaveOffset>>

handleMouseStop == \E midi \in PointerNotes : mouseStop(midi) /\ UNCHANGED input

\* onClick of the sustain switch
sustainSwitch ==
    /\ isSustainActive' = ~isSustainActive
    /\ IF isSustainActive THEN releaseGlobalSustain ELSE NoCall
    /\ UNCHANGED <<masterGain, activeKeys, octaveOffset, input>>

\* onClick of the panic button
panicButton ==
    /\ enforceSilence
    /\ activeKeys' = {}
    /\ isSustainActive' = FALSE
    /\ UNCHANGED <<masterGain, octaveOffset, input>>

\* onClick of the two octave buttons
octaveButton ==
    /\ octaveOffset' \in {OctaveDown(octaveOffset), OctaveUp(octaveOffset)}
    /\ UNCHANGED <<masterGain, activeKeys, isSustainActive, input>>
    /\ NoCall

\* after mount: "useEffect(() => { setMasterVolume(volume) })" has run
InitUI ==
    /\ backend \in BOOLEAN
    /\ faulty = FALSE
    /\ active = EmptyMap
    /\ sustained = EmptyMap
    /\ voices = [v \in VoiceIds |-> Uncreated]
    /\ nVoices = 0
    /\ timers = {}
    /\ lastOp = Op("setMasterVolume", DefaultVolume, FALSE,
                   IF backend THEN "done" ELSE "dropped")
    /\ masterGain = IF backend THEN gainValue(DefaultVolume) ELSE NoGain
    /\ activeKeys = {}
    /\ isSustainActive = FALSE
    /\ octaveOffset = 0
    /\ input = NoInput

NextUI ==
    \/ handleKeyDown
    \/ handleKeyUp
    \/ handleMousePlay
    \/ handleMouseStop
    \/ sustainSwitch
    \/ panicButton
    \/ octaveButton

SpecUI == InitUI /\ [][NextUI]_vars

\* ---- the keyboard and the pointer ---------------------------------------------
\* A key-down that is not an auto-repeat ("if (e.repeat) return") comes from a
\* key that was up; input remembers the note it started.
physicalKeyDown == \E code \in NoteCodes \cup ControlCodes :
    /\ keyDown(code)
    /\ IF code \in NoteCodes
       THEN /\ input.pressed[code] = KeyIsUp
            /\ input' = [input EXCEPT !.pressed[code] =
                            IF StartsNote(getMidiFromKey(code, octaveOffset))
                            THEN getMidiFromKey(code, octaveOffset) ELSE NoNote]
       ELSE UNCHANGED input

\* The key-up of a key that was down.
physicalKeyUp == \E code \in NoteCodes \cup ControlCodes :
    /\ keyUp(code)
    /\ IF code \in NoteCodes
       THEN /\ input.pressed[code] # KeyIsUp
            /\ input' = [input EXCEPT !.pressed[code] = KeyIsUp]
       ELSE UNCHANGED input

\* onPointerDown of an on-screen key the pointer is not down on
pointerDown == \E midi \in PointerNotes :
    /\ midi \notin input.pointed
    /\ mousePlay(midi)
    /\ input' = [input EXCEPT !.pointed = @ \cup {midi}]

\* onPointerUp and onPointerLeave of an on-screen key: the pointer was down on
\* it, or it only hovered over the key or went down elsewhere
pointerUpOrLeave == \E midi \in PointerNotes :
    /\ mouseStop(midi)
    /\ IF midi \in input.pointed
       THEN input' = [input EXCEPT !.pointed = @ \ {midi}]
       ELSE input' = [input EXCEPT !.flip = ~@]

NextInput ==
    \/ physicalKeyDown
    \/ physicalKeyUp
    \/ pointerDown
    \/ pointerUpOrLeave
    \/ sustainSwitch
    \/ panicButton
    \/ octaveButton

SpecInput == InitUI /\ [][NextInput]_vars

\* ==== properties ==============================================================

\* C1: in every reachable state no note is a key of both activeOscillators
\* and sustainedOscillators.
C1_MapsDisjoint == \A n \in Notes : ~(has(active, n) /\ has(sustained, n))

\* a note was just moved to sustained while another one is held
C1_Witness ==
    /\ lastOp.op = "stopNote" /\ lastOp.res = "sustained"
    /\ has(sustained, lastOp.n)
    /\ \E m \in Notes : m # lastOp.n /\ has(active, m)

\* C2: playNote(n) while n is a key of activeOscillators changes nothing: no
\* oscillator is created, the voice stored for n is the one stored before,
\* both maps, all voices and all timers are as they were.
C2_DuplicateNoteOnIsNoOp ==
    [][\A n \in Notes :
         (lastOp'.op = "playNote" /\ lastOp'.n = n /\ has(active, n))
            => /\ UNCHANGED reg
               /\ Cardinality({v \in 1 .. nVoices' : voices'[v].note = n
                                                     /\ voices'[v].stopCalls = 0}) = 1
      ]_vars

\* a second playNote of a held note has returned
C2_Witness ==
    /\ lastOp.op = "playNote" /\ lastOp.res = "noop"
    /\ has(active, lastOp.n)

\* C3: playNote(n) while n is sustaining puts the very same voice back into
\* activeOscillators, removes n from sustainedOscillators and creates no
\* oscillator; and a voice that is in activeOscillators has no stop scheduled,
\* no pending disposal timer and is not disconnected.
C3_RetriggerStep ==
    \A n \in Notes :
        (lastOp'.op = "playNote" /\ lastOp'.n = n /\ has(sustained, n))
            => /\ active'[n] = sustained[n]
               /\ ~has(sustained', n)
               /\ nVoices' = nVoices
               /\ voices' = voices
               /\ timers' = timers
C3_ActiveVoiceLive ==
    \A v \in values(active) :
        voices[v].stopCalls = 0 /\ ~Disposed(v) /\ ~HasTimer(v) /\ Sounding(v)
C3_RetriggerKeepsVoice == [][C3_RetriggerStep]_vars /\ []C3_ActiveVoiceLive

\* the note was retriggered out of sustained and is held again
C3_Witness ==
    /\ lastOp.op = "playNote" /\ lastOp.res = "retriggered"
    /\ has(active, lastOp.n) /\ ~has(sustained, lastOp.n)

\* C4: a disposal callback that fires never disconnects a voice that is at
\* that moment a value of activeOscillators or sustainedOscillators.
C4_DisposalSparesLiveVoices ==
    [][\A v \in VoiceIds :
         (lastOp'.op = "timer" /\ voices'[v] # voices[v])
            => v \notin values(active) \cup values(sustained)
      ]_vars

\* a callback fired for a note that had been played again in the meantime
C4_Witness ==
    /\ lastOp.op = "timer"
    /\ has(active, lastOp.n)
    /\ Sounding(active[lastOp.n])
    /\ \E v \in Created : v # active[lastOp.n] /\ voices[v].note = lastOp.n /\ Disposed(v)

\* C5: stop() is called at most once on every oscillator, and every
\* oscillator and gain node is disconnected at most once.
C5_AtMostOneStopAndDispose ==
    \A v \in VoiceIds :
        /\ voices[v].stopCalls <= 1
        /\ voices[v].oscDisc <= 1
        /\ voices[v].gainDisc <= 1

\* one voice ended by a release and one by enforceSilence, both disconnected
C5_Witness ==
    \E v, w \in Created :
        /\ voices[v].endedBy \in {"stopNote", "releaseGlobalSustain"}
        /\ voices[w].endedBy = "enforceSilence"
        /\ Disposed(v) /\ Disposed(w)
        /\ voices[v].stopCalls = 1 /\ voices[w].stopCalls = 1

\* C6: when enforceSilence returns, both maps are empty, however many voices
\* they held.
C6_SilenceEmptiesMaps ==
    lastOp.op = "enforceSilence" => active = EmptyMap /\ sustained = EmptyMap

\* enforceSilence has just swept a held and a sustaining voice
C6_Witness ==
    /\ lastOp.op = "enforceSilence"
    /\ lastOp.na >= 1 /\ lastOp.ns >= 1
    /\ active = EmptyMap /\ sustained = EmptyMap

\* The voices whose release was started by releaseGlobalSustain.
GloballyReleased == {v \in Created : voices[v].endedBy = "releaseGlobalSustain"}

\* C7 (as stated): a note released by releaseGlobalSustain is still a key of
\* sustainedOscillators until its release duration has elapsed, and is not a
\* key of it once the release duration plus the timer margin has elapsed.
C7_StaysUntilReleased ==
    \A v \in GloballyReleased :
        /\ voices[v].since < globalReleaseTime => sustained[voices[v].note] = v
        /\ voices[v].since >= globalReleaseTime + timerMargin
              => sustained[voices[v].note] # v

\* C7 (amended): when releaseGlobalSustain returns, sustainedOscillators is
\* empty; a voice it released is in neither map, keeps sounding until its
\* scheduled stop (release + 50 ms) and is disconnected, by its timer only,
\* no earlier than release + 100 ms after the call.
C7_ClearedAtOnce ==
    /\ (lastOp.op = "releaseGlobalSustain" /\ backend) => sustained = EmptyMap
    /\ \A v \in GloballyReleased :
        /\ v \notin values(active) \cup values(sustained)
        /\ voices[v].since < globalReleaseTime + stopMargin => Sounding(v)
        /\ Disposed(v) => voices[v].since >= globalReleaseTime + timerMargin
        /\ Disposed(v) <=> ~HasTimer(v)

\* releaseGlobalSustain has just returned and its voice is still decaying
C7_Witness ==
    /\ lastOp.op = "releaseGlobalSustain"
    /\ \E v \in GloballyReleased :
        voices[v].since = 0 /\ Sounding(v) /\ HasTimer(v) /\ ~has(sustained, voices[v].note)

\* C8: stopNote(n, false) on a held note leaves n in neither map, and n stays
\* in neither map - through ticks, timer callbacks and calls for other notes -
\* until playNote(n) is called again.
C8_ReleaseStep ==
    \A n \in Notes :
        (lastOp'.op = "stopNote" /\ lastOp'.n = n /\ ~lastOp'.sus /\ has(active, n))
            => ~has(active', n) /\ ~has(sustained', n)
C8_AbsentStaysAbsent ==
    \A n \in Notes :
        (~has(active, n) /\ ~has(sustained, n)
            /\ ~(lastOp'.op = "playNote" /\ lastOp'.n = n))
            => ~has(active', n) /\ ~has(sustained', n)
C8_ReleasedNoteAbsent == [][C8_ReleaseStep /\ C8_AbsentStaysAbsent]_vars

\* the disposal timer of a note released by stopNote(n, false) has fired
C8_Witness ==
    /\ lastOp.op = "timer"
    /\ ~has(active, lastOp.n) /\ ~has(sustained, lastOp.n)
    /\ \E v \in Created :
        /\ voices[v].note = lastOp.n
        /\ voices[v].endedBy = "stopNote"
        /\ Disposed(v)
        /\ voices[v].since >= releaseTime + timerMargin

\* C9: when enforceSilence returns, every voice created before the call -
\* also one that is releasing, with its disposal timer pending - has been
\* stopped and disconnected.
C9_SilenceDisposesAll ==
    (lastOp.op = "enforceSilence" /\ backend)
        => \A v \in Created : Stopped(v) /\ Disposed(v)

\* C10: a throw from stop()/disconnect() on one voice during enforceSilence
\* is caught: stop() is still called on every voice of both maps, every voice
\* that did not throw is stopped and disconnected, and both maps are empty when
\* the call returns.
C10_SweepSurvivesThrow ==
    [][(lastOp'.op = "enforceSilence" /\ backend)
         => LET swept == values(active) \cup values(sustained)
            IN /\ active' = EmptyMap /\ sustained' = EmptyMap
               /\ lastOp'.res = "done"
               /\ \A v \in swept : voices'[v].stopCalls = 1
               /\ Cardinality({v \in swept : Stopped(v)' /\ Disposed(v)'})
                     = Cardinality(swept) - lastOp'.nf
      ]_vars

\* one of two voices threw during the sweep, the other one was disconnected
C10_Witness ==
    /\ lastOp.op = "enforceSilence" /\ lastOp.nf = 1
    /\ lastOp.na + lastOp.ns = 2
    /\ active = EmptyMap /\ sustained = EmptyMap
    /\ \E v, w \in Created :
        /\ voices[v].endedBy = "enforceSilence" /\ ~Disposed(v)
        /\ voices[w].endedBy = "enforceSilence" /\ Disposed(w) /\ Stopped(w)

\* C11: with no audio backend every call of the interface returns at its
\* first test: the two maps, the oscillators created, the pending timers and
\* the master gain are left as they were.
C11_NoBackendNoEffect ==
    [][~backend => /\ UNCHANGED <<active, sustained, voices, nVoices, timers, masterGain>>
                   /\ lastOp'.res = "dropped"
      ]_vars

\* setMasterVolume has returned with no backend, nothing was ever created
C11_Witness ==
    /\ ~backend
    /\ lastOp.op = "setMasterVolume" /\ lastOp.res = "dropped"
    /\ nVoices = 0 /\ timers = {} /\ masterGain = NoGain

\* C12: stopNote(n, s) for a note that is not a key of activeOscillators
\* changes neither map, no voice and no timer, whatever s is; a note that is
\* sustaining stays in sustainedOscillators.
C12_NoteOffOfAbsentNote ==
    [][\A n \in Notes :
         (lastOp'.op = "stopNote" /\ lastOp'.n = n /\ ~has(active, n))
            => UNCHANGED reg
      ]_vars

\* stopNote returned early for a note that is sustaining
C12_Witness ==
    /\ lastOp.op = "stopNote" /\ lastOp.res = "noop"
    /\ has(sustained, lastOp.n)

\* C13: setMasterVolume sets a master gain in [0, 1]: a volume below 0 gives
\* gain 0, a volume above 10 gives gain 1, a volume in 0..10 gives volume / 10.
C13_VolumeClamped ==
    [][\A volume \in Volumes :
         (lastOp'.op = "setMasterVolume" /\ lastOp'.n = volume /\ backend)
            => /\ masterGain' \in 0 .. GainScale
               /\ volume <= 0 => masterGain' = 0
               /\ volume >= GainScale => masterGain' = GainScale
               /\ volume \in 0 .. GainScale => masterGain' = volume
      ]_vars

\* a negative volume was set and the gain is 0
C13_Witness ==
    /\ backend
    /\ lastOp.op = "setMasterVolume" /\ lastOp.n < 0
    /\ masterGain = 0

\* C14: with the backend available, the highlighted set activeKeys equals the
\* set of notes that have a voice in the active or in the sustaining mapping.
\* The component drops a note from activeKeys on every key-up, also when
\* stopNote moves the voice to sustainedOscillators.
C14_HighlightsSoundingOrSustaining ==
    backend => activeKeys = keys(active) \cup keys(sustained)

\* C17: every stopNote call the component issues carries the value the global
\* sustain flag has at that moment.  handleMouseStop always passes false.
C17_NoteOffCarriesSustainFlag ==
    [][lastOp'.op = "stopNote" => lastOp'.sus = isSustainActive]_vars

\* C15: the oscillator of note n is given the frequency 440 * 2^((n-69)/12):
\* note 69 gets 440 Hz, 81 gets 880 Hz, 57 gets 220 Hz, and in general a note
\* k whole octaves from 69 gets exactly 440 * 2^k Hz (each +12 doubles, each
\* -12 halves); a higher note gets a higher frequency.
C15_FrequencyOfNote ==
    \A v \in Created :
        LET n == voices[v].note
            f == voices[v].freq
            d == n - ConcertA
        IN /\ n = 69 => f = Hz(440)
           /\ n = 81 => f = Hz(880)
           /\ n = 57 => f = Hz(220)
           /\ (d % SemitonesPerOctave = 0 /\ d >= 0)
                => f = Hz(ConcertHz) * TwoTo(d \div SemitonesPerOctave)
           /\ (d % SemitonesPerOctave = 0 /\ d < 0)
                => f * TwoTo((0 - d) \div SemitonesPerOctave) = Hz(ConcertHz)
           /\ \A w \in Created :
                /\ voices[w].note = n + SemitonesPerOctave => voices[w].freq = 2 * f
                /\ voices[w].note > n => voices[w].freq > f

C15_Witness ==
    \E v, w \in Created :
        /\ voices[v].note = 81 /\ voices[v].freq = Hz(880)
        /\ voices[w].note = 69 /\ voices[w].freq = Hz(440)

\* C16: whenever an operation schedules a gain ramp on a voice (attack,
\* sustain decay, release), the two calls right before the ramp are
\* cancelScheduledValues and then setValueAtTime.  playNote ramps a new gain
\* node without a cancel, and the sustain branch of stopNote ramps without
\* pinning the current value.
C16_CancelAndPinBeforeRamp ==
    [][\A i \in DOMAIN lastOp'.env :
          lastOp'.env[i] \in Ramps
            => /\ i >= 3
               /\ lastOp'.env[i - 2] = "cancelScheduledValues"
               /\ lastOp'.env[i - 1] = "setValueAtTime"]_vars

\* C18: stopNote(n, true) with n in the active map moves the same voice to
\* the sustained map and schedules neither a stop nor a disposal timer for
\* it; a sustained voice is never stopped or given a timer, and note n
\* leaves the sustained map only through playNote(n) (the voice goes back to
\* the active map), releaseGlobalSustain or enforceSilence, never through a
\* timer callback or the passage of time.
C18_SustainStep ==
    (lastOp'.op = "stopNote" /\ lastOp'.res = "sustained")
        => /\ has(active, lastOp'.n)
           /\ sustained'[lastOp'.n] = active[lastOp'.n]
           /\ ~has(active', lastOp'.n)
           /\ UNCHANGED <<voices, timers>>

C18_SustainedUntouched ==
    \A n \in Notes :
        has(sustained', n)
            => /\ voices'[sustained'[n]].stopCalls = 0
               /\ ~\E t \in timers' : t.v = sustained'[n]

C18_LeavesOnlyByCall ==
    \A n \in Notes :
        (has(sustained, n) /\ sustained'[n] # sustained[n])
            => \/ lastOp'.op = "playNote" /\ lastOp'.n = n /\ active'[n] = sustained[n]
               \/ lastOp'.op = "releaseGlobalSustain"
               \/ lastOp'.op = "enforceSilence"

C18_SustainHoldsVoice ==
    [][C18_SustainStep /\ C18_SustainedUntouched /\ C18_LeavesOnlyByCall]_vars

C18_Witness ==
    /\ lastOp.op = "timer"
    /\ \E n \in Notes : has(sustained, n) /\ Sounding(sustained[n])

\* C20: for every released voice the release ramp ends no later than the
\* scheduled stop of the oscillator, and the disposal callback is due, and
\* runs, strictly after that stop: 150, 200, 250 ms after stopNote and
\* 200, 250, 300 ms after releaseGlobalSustain.  A released voice is never
\* disconnected before it has stopped.
Released == {v \in Created : voices[v].endedBy \in {"stopNote", "releaseGlobalSustain"}}

C20_ReleaseOrder ==
    \A v \in Released :
        /\ voices[v].rampEnd <= voices[v].stopAt
        /\ \A t \in timers : t.v = v => voices[v].stopAt < t.delay
        /\ voices[v].endedBy = "stopNote"
             => /\ voices[v].rampEnd = 150 /\ voices[v].stopAt = 200
                /\ \A t \in timers : t.v = v => t.delay = 250
        /\ voices[v].endedBy = "releaseGlobalSustain"
             => /\ voices[v].rampEnd = 200 /\ voices[v].stopAt = 250
                /\ \A t \in timers : t.v = v => t.delay = 300
        /\ (voices[v].oscDisc > 0 \/ voices[v].gainDisc > 0)
             => /\ Stopped(v)
                /\ voices[v].since > voices[v].stopAt
        /\ HasTimer(v) \/ Disposed(v)

C20_Witness ==
    \E v, w \in Released :
        /\ voices[v].endedBy = "releaseGlobalSustain" /\ Disposed(v)
        /\ voices[w].endedBy = "stopNote" /\ Stopped(w) /\ HasTimer(w)

\* C19: when time passes and due timers fire, every voice released by
\* stopNote(n, false) or by releaseGlobalSustain is eventually stopped, has
\* its oscillator and gain node disconnected, and is held by neither map:
\* again and again a moment comes at which every voice released so far has
\* ended, so no released voice sounds forever.
Ended(v) ==
    /\ Stopped(v)
    /\ Disposed(v)
    /\ v \notin values(active) \cup values(sustained)
    /\ ~HasTimer(v)

C19_ReleasedVoiceEnds == []<>(\A v \in Released : Ended(v))

C19_Witness ==
    \E v, w \in Released :
        /\ voices[v].endedBy = "stopNote" /\ Stopped(v) /\ Disposed(v) /\ ~HasTimer(v)
        /\ voices[w].endedBy = "releaseGlobalSustain" /\ Stopped(w) /\ Disposed(w)
        /\ active = EmptyMap /\ sustained = EmptyMap

\* C21: whatever physical keys, on-screen keys and octave shifts are used,
\* every note that is a key of the active or of the sustained map lies in
\* 24..108; the octave offset stays a multiple of 12 within -24..24, and no
\* note key of KEY_TO_OFFSET leaves the range at any such offset.
C21_NotesInRange ==
    /\ \A n \in keys(active) \cup keys(sustained) \cup activeKeys :
            n >= LowestNote /\ n <= HighestNote
    /\ octaveOffset \in OctaveOffsets
    /\ \A k \in LowestOffset .. HighestOffset :
            /\ FirstNote + k + octaveOffset >= LowestNote
            /\ FirstNote + k + octaveOffset <= HighestNote

C21_Witness ==
    /\ octaveOffset = MaxOctaveOffset
    /\ has(active, FirstNote + KEY_TO_OFFSET["KeyR"] + MaxOctaveOffset)
    /\ has(sustained, FirstNote + KEY_TO_OFFSET["KeyR"])

\* C23: in every state reached through the handlers of the component,
\* the sustained map is empty whenever the sustain flag is off.
C23_SustainOffNothingSustained ==
    ~isSustainActive => sustained = EmptyMap

C23_Witness ==
    /\ ~isSustainActive
    /\ lastOp.op = "releaseGlobalSustain"
    /\ \E v \in Created : voices[v].endedBy = "releaseGlobalSustain"
    /\ activeKeys # {}

\* C25: with the backend available, in every state reached through the
\* handlers of the component a key is highlighted exactly when its note is a
\* key of the active map.
C25_HighlightIsHeld ==
    backend => \A n \in Midi : n \in activeKeys <=> has(active, n)

C25_Witness ==
    /\ backend
    /\ lastOp.op = "stopNote" /\ lastOp.res = "sustained"
    /\ has(sustained, lastOp.n) /\ lastOp.n \notin activeKeys
    /\ \E n \in activeKeys : has(active, n)

\* C24: the number of oscillators that were started and are not yet disposed
\* equals the number of entries of the active map plus the number of entries
\* of the sustained map plus the number of pending disposal timers; every
\* such oscillator is a value of one of the maps or has a pending timer.
Live == {v \in Created : voices[v].started /\ ~Disposed(v)}

C22_KeyUpEndsItsNote ==
    [][\A code \in NoteCodes :
          (input.pressed[code] \in Midi /\ input'.pressed[code] = KeyIsUp)
            => ~has(active', input.pressed[code])]_vars

\* C26: a pointer-up or pointer-leave on an on-screen key that no
\* pointer-down on that key preceded changes neither the registry nor the
\* highlighted keys.  handleMouseStop stops the note whoever started it.
C26_StrayPointerUpIsNoOp ==
    [][(backend /\ input'.flip # input.flip) => UNCHANGED <<reg, activeKeys>>]_vars

====
